---- MODULE Spec2Model ----
(***************************************************************************)
(* State-machine model of the media bots of this repository.               *)
(*                                                                         *)
(* The repository holds several independent bot programs.  The variable    *)
(* `variant` says which one is deployed; it is chosen at start-up and      *)
(* never changes:                                                          *)
(*   "fwd"  main.py + handlers.py + state.py + db.py  (channel forwarder)  *)
(*   "proc" bot/main.py + bot/processor.py + bot/db.py (in-chat cleaner)   *)
(*   "vid"  src/bot_instance.py + src/database.py     (URL remover bot)    *)
(*   "save" database.py                               (MongoDB.save_file)  *)
(***************************************************************************)
EXTENDS Integers, Sequences, FiniteSets, TLC

\* ------------------------------------------------------------------ bounds
MaxMsgs == 3

MaxSubs == 2
MaxTicks == 2
MaxPurges == 1
MaxDeliveries == 2
MaxFloods == 1
MaxJobs == 2
MaxSleeps == 5
MaxSeconds == 67
MaxFrames == 40
MaxDays == 1
MaxRequests == 101

\* ----------------------------------------------------------- input domains
Msgs == 1..MaxMsgs

\* file_unique_id values carried by inbound media messages
Uids == {"u1", "u2", "u3"}

\* the bytes behind each file_unique_id: u1 and u2 are the same bytes
\* uploaded twice (different transport ids), u3 is different content
ContentOf(u) == IF u = "u3" THEN "c2" ELSE "c1"

VARIABLES
    variant,        \* which program of the repository runs
    msgUid,         \* message id -> file_unique_id of the media it carries
    nextMsg,        \* id of the next message the transport will deliver
    \* ---- variant "fwd"
    q,              \* handlers.q : queue of message ids
    unfinished,     \* handlers.q.unfinished_tasks
    state_col,      \* db.state_col : the {"_id": "bot"} document
    dup_col,        \* db.dup_col : number of documents per file_unique_id
    forwards_col,   \* db.forwards_col : number of documents per source msg
    copyCalls,      \* message.copy() invocations per source message
    copied,         \* copies that reached TARGET_CHANNEL per source message
    wpc,            \* position of each worker inside handlers.process
    wcur,           \* the message each worker is handling
    outcome,        \* how the handling of each message ended
    \* ---- variant "proc"
    use_hash,       \* bot.config.USE_HASH_FOR_DUPLICATES
    pq,             \* bot.processor.q : queue of message ids
    punfinished,    \* bot.processor.q.unfinished_tasks
    files_col,      \* bot.db.files_col : set of documents
    logs_col,       \* bot.db.logs_col : set of <<action, message id>>
    ppc,            \* position of the worker coroutine inside worker()
    pcur,           \* the message the worker is handling
    phash,          \* worker's local file_hash
    psent,          \* send_video/send_document/send_animation calls per message
    pdeleted,       \* messages deleted from the chat
    poutcome,       \* how the handling of each message ended
    pdownloaded,    \* messages for which message.download was called
    \* ---- variants "vid" and "save"
    now,            \* wall clock, in seconds
    purges,         \* number of explicit purge operations invoked so far
    \* ---- variant "vid"
    enable_duplicate_check, \* Config.ENABLE_DUPLICATE_CHECK
    vfiles,         \* DatabaseManager.db.files : set of documents
    vlog,           \* action logged to db.logs for the latest submission
    total_requests, \* db.users: total_requests per user
    nextSub,        \* id of the next video submission
    vpc,            \* position of the running _process_video call
    vcur,           \* the submission _process_video is handling
    vsent,          \* reply_video calls that delivered the latest submission
    vseen,          \* what db.files held for its hash at the insert attempt
    vraised,        \* what files.insert_one raised for the latest submission
    vresult,        \* how _process_video ended for the latest submission
    \* ---- variant "save"
    mfiles,         \* MongoDB.db.files : set of documents
    mlast,          \* the file_data of the latest save_file call
    \* ---- variant "tfb"
    tmessages,      \* bot.DatabaseManager.db.messages : set of documents
    nextDeliv,      \* number of the next delivery of a source message
    tsrc,           \* delivery -> id of the source message it carries
    tpc,            \* position of each _process_message call
    tstatus,        \* status of the message_data each call prepared
    tsendCalls,     \* client.send_file calls made by each call
    tfloods,        \* FloodWaitError raised by send_file in each call
    tsent,          \* videos that reached the destination, per source id
    tsaved,         \* what messages.insert_one did for each call
    \* ---- variants "tmp" and "core": the temp tree of the working directory
    tfs,            \* regular files under temp/ : [dir, id, mtime]
    clock,          \* wall clock, in hours
    lastSweep,      \* hour at which _periodic_cleanup last woke up
    cleanup_task,   \* state of the _periodic_cleanup task
    sweep_removed,  \* files the latest sweep removed
    sweep_failed,   \* files whose os.remove raised in the latest sweep
    sweep_aborted,  \* directory whose listing raised in the latest sweep
    jnext,          \* number of the next _process_video download
    jpc,            \* whether a _process_video call holds a downloaded file
    jfile,          \* the file that call holds
    \* ---- variant "core"
    REMOVE_WATERMARK, \* config.Config.REMOVE_WATERMARK
    wm_exit,        \* exit status of ffmpeg in the latest remove_watermark
    wm_result,      \* what the latest remove_watermark returned
    wm_frame,       \* frame size of the video given to remove_watermark
    wm_params,      \* rectangle parameters asked for with that video
    wm_rect,        \* rectangle of the delogo filter ffmpeg was run with
    \* ---- variant "prog": the progress reporter of one removal job
    method,         \* "FilterGraph" or "Inpaint"
    duration,       \* probed duration in seconds, 0 when unknown
    totalFrameCount, \* frames of the input, 0 when unreadable
    currentSeconds, \* seconds of the latest time= token
    frameIndex,     \* frames written so far
    status,         \* status of the job
    lastPercent,    \* percent of the latest emitted update
    sinceEmit,      \* half-seconds since that update, counted up to 1.5 s
    emitFlip,       \* flips at every emitted update
    \* ---- variant "quota": the daily limit of _process_video
    qday,           \* the current day
    today_requests, \* requests each user made during the current day
    qresult,        \* what the latest _process_video call answered
    \* ---- variant "tmp": how the latest _process_video call ended
    jexit           \* its exit path and which file operations raised

varsFwd == <<q, unfinished, state_col, dup_col, forwards_col, copyCalls,
             copied, wpc, wcur, outcome>>
varsEnv == <<variant, msgUid, nextMsg>>
varsProc == <<use_hash, pq, punfinished, files_col, logs_col, ppc, pcur,
              phash, psent, pdeleted, poutcome,
             pdownloaded>>
varsVid == <<enable_duplicate_check, vfiles, vlog, total_requests, nextSub,
             vpc, vcur, vsent, vseen, vraised, vresult>>
varsClock == <<now, purges>>
varsSave == <<mfiles, mlast>>
varsTfb == <<tmessages, nextDeliv, tsrc, tpc, tstatus, tsendCalls, tfloods,
             tsent, tsaved>>
varsTmp == <<tfs, clock, lastSweep, cleanup_task, sweep_removed,
             sweep_failed, sweep_aborted, jnext, jpc, jfile>>
varsCore == <<REMOVE_WATERMARK, wm_exit, wm_result, wm_frame, wm_params,
              wm_rect>>
varsProg == <<method, duration, totalFrameCount, currentSeconds, frameIndex,
              status, lastPercent, sinceEmit, emitFlip>>
varsQuota == <<qday, today_requests, qresult>>
varsJob == <<jexit>>
varsMore == <<varsTfb, varsTmp, varsCore, varsProg, varsQuota, varsJob>>
varsBots == <<varsEnv, varsFwd, varsProc, varsClock, varsVid, varsSave>>
vars == <<varsBots, varsMore>>
\* what the actions of one variant leave alone
varsOffTfb == <<varsBots, varsTmp, varsCore, varsProg, varsQuota, varsJob>>
varsOffTmp == <<varsBots, varsTfb, varsProg, varsQuota, varsJob>>
varsOffJob == <<varsBots, varsTfb, varsProg, varsQuota>>
varsOffProg == <<varsBots, varsTfb, varsTmp, varsCore, varsQuota, varsJob>>
varsOffQuota == <<varsEnv, varsFwd, varsProc, varsClock, varsSave, varsTfb,
                  varsTmp, varsCore, varsProg, varsJob,
                  enable_duplicate_check, vfiles,
                  vlog, nextSub, vpc, vcur, vsent, vseen, vraised, vresult>>

\* =====================================================================
\* variant "fwd": main.py, handlers.py, state.py
\* =====================================================================

\* variation of Queue_get: the queue is a queue.LifoQueue, get() returns the
\* item put last
LifoQueue_get(items) ==
    [item |-> items[Len(items)], rest |-> SubSeq(items, 1, Len(items) - 1)]

\* queue.Queue.get on a non-empty queue (`q = Queue()`, maxsize 0): the item
\* put first is returned and removed
Queue_get(items) == [item |-> Head(items), rest |-> Tail(items)]

\* queue.Queue.put / put_nowait on a queue of maxsize 0: never full, the item
\* goes to the end
Queue_put(items, item) == Append(items, item)

\* variation of NumWorkers: a second worker thread runs handlers.process
TwoWorkers == 1 + 1

\* main.start() starts exactly one worker thread running handlers.process
NumWorkers == 1
Workers == 1..NumWorkers

InitFwdVars ==
    /\ q = <<>>
    /\ unfinished = 0
    /\ state_col = "nodoc"
    /\ dup_col = [u \in Uids |-> 0]
    /\ forwards_col = [m \in Msgs |-> 0]
    /\ copyCalls = [m \in Msgs |-> 0]
    /\ copied = [m \in Msgs |-> 0]
    /\ wpc = [w \in Workers |-> "idle"]
    /\ wcur = [w \in Workers |-> 0]
    /\ outcome = [m \in Msgs |-> "none"]

\* variation of check_duplicate: the lookup never finds the key
check_duplicate_never(uid) == FALSE

\* state.check_duplicate
check_duplicate(uid) == dup_col[uid] > 0

\* Queue.task_done() followed by `continue`: the worker is back at q.get
task_done(w, result) ==
    /\ unfinished' = unfinished - 1
    /\ outcome' = [outcome EXCEPT ![wcur[w]] = result]
    /\ wpc' = [wpc EXCEPT ![w] = "idle"]
    /\ wcur' = [wcur EXCEPT ![w] = 0]

\* an exception raised outside the try block leaves `while True`:
\* asyncio.run(process(app)) returns and the worker thread ends
escape(w) ==
    /\ wpc' = [wpc EXCEPT ![w] = "dead"]
    /\ outcome' = [outcome EXCEPT ![wcur[w]] = "crashed"]
    /\ UNCHANGED <<unfinished, wcur>>

\* handlers.on_channel_message: a media message of a source channel is queued
on_channel_message(u) ==
    /\ variant = "fwd"
    /\ nextMsg <= MaxMsgs
    /\ msgUid' = [msgUid EXCEPT ![nextMsg] = u]
    /\ nextMsg' = nextMsg + 1
    /\ q' = Queue_put(q, nextMsg)
    /\ unfinished' = unfinished + 1
    /\ outcome' = [outcome EXCEPT ![nextMsg] = "queued"]
    /\ UNCHANGED <<varsMore, varsProc, varsClock, varsVid, varsSave, variant, state_col, dup_col, forwards_col, copyCalls,
                   copied, wpc, wcur>>

\* state.pause_forward (main.pause_cmd, handler thread)
pause_forward ==
    /\ variant = "fwd"
    /\ state_col # "paused"
    /\ state_col' = "paused"
    /\ UNCHANGED <<varsMore, varsProc, varsClock, varsVid, varsSave, varsEnv, q, unfinished, dup_col, forwards_col, copyCalls,
                   copied, wpc, wcur, outcome>>

\* state.resume_forward (main.resume_cmd, handler thread)
resume_forward ==
    /\ variant = "fwd"
    /\ state_col # "running"
    /\ state_col' = "running"
    /\ UNCHANGED <<varsMore, varsProc, varsClock, varsVid, varsSave, varsEnv, q, unfinished, dup_col, forwards_col, copyCalls,
                   copied, wpc, wcur, outcome>>

\* handlers.process: message = q.get(timeout=1)
process_get(w) ==
    /\ variant = "fwd"
    /\ wpc[w] = "idle"
    /\ q # <<>>
    /\ wcur' = [wcur EXCEPT ![w] = Queue_get(q).item]
    /\ q' = Queue_get(q).rest
    /\ wpc' = [wpc EXCEPT ![w] = "state_find"]
    /\ outcome' = [outcome EXCEPT ![Queue_get(q).item] = "handling"]
    /\ UNCHANGED <<varsMore, varsProc, varsClock, varsVid, varsSave, varsEnv, unfinished, state_col, dup_col, forwards_col,
                   copyCalls, copied>>

\* variation of after_forward_state: the flag is read and not acted upon
after_forward_state_ignored(paused) == "check"

\* handlers.process: `if get_forward_state(): q.task_done(); continue`
after_forward_state(paused) == IF paused THEN "drop" ELSE "check"

\* state.get_forward_state, first half: doc = state_col.find_one(...)
process_state_find(w) ==
    /\ variant = "fwd"
    /\ wpc[w] = "state_find"
    /\ \/ \* the database call raises
          /\ escape(w)
       \/ /\ state_col = "nodoc"
          /\ wpc' = [wpc EXCEPT ![w] = "state_insert"]
          /\ UNCHANGED <<unfinished, wcur, outcome>>
       \/ /\ state_col \in {"paused", "running"}
          /\ IF after_forward_state(state_col = "paused") = "drop"
             THEN task_done(w, "dropped_paused")
             ELSE /\ wpc' = [wpc EXCEPT ![w] = "check"]
                  /\ UNCHANGED <<unfinished, wcur, outcome>>
    /\ UNCHANGED <<varsMore, varsProc, varsClock, varsVid, varsSave, varsEnv, q, state_col, dup_col, forwards_col, copyCalls,
                   copied>>

\* state.get_forward_state, second half: insert_one({"_id": "bot", ...})
process_state_insert(w) ==
    /\ variant = "fwd"
    /\ wpc[w] = "state_insert"
    /\ \/ \* the database call raises
          /\ escape(w)
          /\ UNCHANGED state_col
       \/ \* a document with _id "bot" was upserted meanwhile: DuplicateKeyError
          /\ state_col # "nodoc"
          /\ escape(w)
          /\ UNCHANGED state_col
       \/ /\ state_col = "nodoc"
          /\ state_col' = "running"
          /\ wpc' = [wpc EXCEPT ![w] = "check"]
          /\ UNCHANGED <<unfinished, wcur, outcome>>
    /\ UNCHANGED <<varsMore, varsProc, varsClock, varsVid, varsSave, varsEnv, q, dup_col, forwards_col, copyCalls, copied>>

\* handlers.process: if check_duplicate(uid): q.task_done(); continue
process_check(w) ==
    /\ variant = "fwd"
    /\ wpc[w] = "check"
    /\ \/ escape(w)
       \/ /\ check_duplicate(msgUid[wcur[w]])
          /\ task_done(w, "duplicate")
       \/ /\ ~check_duplicate(msgUid[wcur[w]])
          /\ wpc' = [wpc EXCEPT ![w] = "add"]
          /\ UNCHANGED <<unfinished, wcur, outcome>>
    /\ UNCHANGED <<varsMore, varsProc, varsClock, varsVid, varsSave, varsEnv, q, state_col, dup_col, forwards_col, copyCalls,
                   copied>>

\* state.add_duplicate: dup_col.insert_one (no unique index on the collection)
add_duplicate(uid) == dup_col' = [dup_col EXCEPT ![uid] = @ + 1]

\* handlers.process: add_duplicate(uid)
process_add(w) ==
    /\ variant = "fwd"
    /\ wpc[w] = "add"
    /\ \/ /\ escape(w)
          /\ UNCHANGED dup_col
       \/ /\ add_duplicate(msgUid[wcur[w]])
          /\ wpc' = [wpc EXCEPT ![w] = "copy"]
          /\ UNCHANGED <<unfinished, wcur, outcome>>
    /\ UNCHANGED <<varsMore, varsProc, varsClock, varsVid, varsSave, varsEnv, q, state_col, forwards_col, copyCalls, copied>>

\* handlers.process: copied = await message.copy(chat_id=TARGET_CHANNEL)
process_copy(w) ==
    /\ variant = "fwd"
    /\ wpc[w] = "copy"
    /\ copyCalls' = [copyCalls EXCEPT ![wcur[w]] = @ + 1]
    /\ \/ \* copy raises: print("Forward error:", e); q.task_done()
          /\ task_done(w, "copy_failed")
          /\ UNCHANGED copied
       \/ /\ copied' = [copied EXCEPT ![wcur[w]] = @ + 1]
          /\ wpc' = [wpc EXCEPT ![w] = "insert"]
          /\ UNCHANGED <<unfinished, wcur, outcome>>
    /\ UNCHANGED <<varsMore, varsProc, varsClock, varsVid, varsSave, varsEnv, q, state_col, dup_col, forwards_col>>

\* variation of forward_record: the record is written twice
forward_record_twice(m) == [forwards_col EXCEPT ![m] = @ + 2]

\* forwards_col after forwards_col.insert_one({"source_msg_id": ...})
forward_record(m) == [forwards_col EXCEPT ![m] = @ + 1]

\* handlers.process: forwards_col.insert_one({...}); q.task_done()
process_insert(w) ==
    /\ variant = "fwd"
    /\ wpc[w] = "insert"
    /\ \/ \* insert raises: print("Forward error:", e)
          /\ task_done(w, "insert_failed")
          /\ UNCHANGED forwards_col
       \/ /\ forwards_col' = forward_record(wcur[w])
          /\ task_done(w, "forwarded")
    /\ UNCHANGED <<varsMore, varsProc, varsClock, varsVid, varsSave, varsEnv, q, state_col, dup_col, copyCalls, copied>>

process(w) ==
    \/ process_get(w)
    \/ process_state_find(w)
    \/ process_state_insert(w)
    \/ process_check(w)
    \/ process_add(w)
    \/ process_copy(w)
    \/ process_insert(w)

NextFwd ==
    \/ \E u \in Uids : on_channel_message(u)
    \/ pause_forward
    \/ resume_forward
    \/ \E w \in Workers : process(w)


\* =====================================================================
\* variant "proc": bot/main.py, bot/processor.py, bot/db.py
\* =====================================================================

InitProcVars ==
    /\ pdownloaded = {}
    /\ pq = <<>>
    /\ punfinished = 0
    /\ files_col = {}
    /\ logs_col = {}
    /\ ppc = "idle"
    /\ pcur = 0
    /\ phash = "None"
    /\ psent = [m \in Msgs |-> 0]
    /\ pdeleted = {}
    /\ poutcome = [m \in Msgs |-> "none"]

\* hashlib.sha256 over the downloaded bytes, as a hex digest
sha256_hexdigest(content) == "sha256:" \o content

\* bot.db.log_action: logs_col.insert_one, failures swallowed
log_action(action, m) == logs_col' = logs_col \cup {<<action, m>>}

\* bot.processor.is_duplicate_by_unique_id
is_duplicate_by_unique_id(file_unique_id) ==
    \E d \in files_col : d.file_unique_id = file_unique_id

\* files_col.find_one({"file_hash": file_hash}) : matches a document that
\* has a top-level field file_hash with that value
find_one_file_hash(file_hash) ==
    \E d \in files_col :
        "file_hash" \in DOMAIN d /\ d["file_hash"] = file_hash

\* the meta dict built by worker() before mark_seen
meta(m, file_hash) ==
    IF file_hash # "None"
    THEN [message_id |-> m, file_hash |-> file_hash]
    ELSE [message_id |-> m]

\* bot.processor.mark_seen
mark_seen(file_unique_id, mt) ==
    files_col' = files_col \cup
                 {[file_unique_id |-> file_unique_id, meta |-> mt]}

\* the `finally: q.task_done()` of worker(): Queue.task_done raises
\* ValueError when called more often than items were put; raised from a
\* finally clause it leaves `while True` and the worker task ends
finally_task_done(result) ==
    /\ poutcome' = [poutcome EXCEPT ![pcur] = result]
    /\ IF punfinished - 1 < 0
       THEN /\ ppc' = "dead"
            /\ UNCHANGED <<punfinished, pcur>>
       ELSE /\ punfinished' = punfinished - 1
            /\ ppc' = "idle"
            /\ pcur' = 0

\* bot.main.on_media -> bot.processor.enqueue
enqueue(u) ==
    /\ variant = "proc"
    /\ nextMsg <= MaxMsgs
    /\ msgUid' = [msgUid EXCEPT ![nextMsg] = u]
    /\ nextMsg' = nextMsg + 1
    /\ pq' = Queue_put(pq, nextMsg)
    /\ punfinished' = punfinished + 1
    /\ poutcome' = [poutcome EXCEPT ![nextMsg] = "queued"]
    /\ log_action("enqueued", nextMsg)
    /\ UNCHANGED <<varsMore, varsFwd, varsClock, varsVid, varsSave, variant, use_hash, pdownloaded, files_col, ppc, pcur, phash,
                   psent, pdeleted>>

\* variation of first_check: the content hash is checked first
first_check_hash == "hash"

\* worker: the check it makes first on a dequeued message is
\* is_duplicate_by_unique_id
first_check == "idcheck"

\* worker: message = q.get(timeout=1)
worker_get ==
    /\ variant = "proc"
    /\ ppc = "idle"
    /\ pq # <<>>
    /\ pcur' = Queue_get(pq).item
    /\ pq' = Queue_get(pq).rest
    /\ ppc' = first_check
    /\ phash' = "None"
    /\ poutcome' = [poutcome EXCEPT ![Queue_get(pq).item] = "handling"]
    /\ UNCHANGED <<varsMore, varsFwd, varsClock, varsVid, varsSave, varsEnv, use_hash, pdownloaded, punfinished, files_col,
                   logs_col, psent, pdeleted>>

\* worker: if is_duplicate_by_unique_id(file_unique_id): ...
worker_idcheck ==
    /\ variant = "proc"
    /\ ppc = "idcheck"
    /\ \/ \* find_one raises: except -> log worker_exception; finally
          /\ log_action("worker_exception", pcur)
          /\ finally_task_done("exception")
       \/ /\ is_duplicate_by_unique_id(msgUid[pcur])
          /\ ppc' = "dupdelete"
          /\ UNCHANGED <<punfinished, pcur, logs_col, poutcome>>
       \/ /\ ~is_duplicate_by_unique_id(msgUid[pcur])
          /\ ppc' = IF use_hash THEN "hash" ELSE "mark"
          /\ UNCHANGED <<punfinished, pcur, logs_col, poutcome>>
    /\ UNCHANGED <<varsMore, varsFwd, varsClock, varsVid, varsSave, varsEnv, use_hash, pdownloaded, pq, files_col, phash, psent,
                   pdeleted>>

\* `q.task_done(); continue` inside the try block, followed by the
\* `finally: q.task_done()` that runs on `continue` as well.  Queue.task_done
\* raises ValueError when the count of unfinished tasks would drop below 0:
\* raised at the first call it is caught by `except Exception` (logged as
\* worker_exception) and the finally clause raises it again; raised from the
\* finally clause it leaves `while True` and the worker task ends.
task_done_continue(result, newlogs) ==
    /\ poutcome' = [poutcome EXCEPT ![pcur] = result]
    /\ IF punfinished - 1 < 0
       THEN /\ ppc' = "dead"
            /\ logs_col' = logs_col \cup newlogs
                                  \cup {<<"worker_exception", pcur>>}
            /\ UNCHANGED <<punfinished, pcur>>
       ELSE IF punfinished - 2 < 0
       THEN /\ punfinished' = punfinished - 1
            /\ ppc' = "dead"
            /\ logs_col' = logs_col \cup newlogs
            /\ UNCHANGED pcur
       ELSE /\ punfinished' = punfinished - 2
            /\ ppc' = "idle"
            /\ logs_col' = logs_col \cup newlogs
            /\ pcur' = 0

\* worker, duplicate by id: delete_messages, log_action, q.task_done(),
\* continue
worker_dupdelete ==
    /\ variant = "proc"
    /\ ppc = "dupdelete"
    /\ \/ /\ pdeleted' = pdeleted \cup {pcur}
          /\ task_done_continue("duplicate", {<<"deleted_duplicate", pcur>>})
       \/ \* delete_messages raises
          /\ UNCHANGED pdeleted
          /\ task_done_continue("duplicate", {<<"delete_failed", pcur>>})
    /\ UNCHANGED <<varsMore, varsFwd, varsClock, varsVid, varsSave, varsEnv, use_hash, pdownloaded, pq, files_col, phash, psent>>

\* bot.processor.compute_hash_from_file: the digest of the downloaded bytes,
\* or None when the download or the read fails
compute_hash_from_file(m) ==
    {sha256_hexdigest(ContentOf(msgUid[m])), "None"}

\* worker, `if USE_HASH_FOR_DUPLICATES:` block
worker_hash ==
    /\ variant = "proc"
    /\ ppc = "hash"
    /\ \E file_hash \in compute_hash_from_file(pcur) :
        /\ phash' = file_hash
        /\ pdownloaded' = pdownloaded \cup {pcur}
        /\ IF file_hash # "None" /\ find_one_file_hash(file_hash)
           THEN \E ok \in BOOLEAN :
                /\ pdeleted' = IF ok THEN pdeleted \cup {pcur} ELSE pdeleted
                /\ IF punfinished - 1 < 0
                   THEN \* ValueError of line 111 is swallowed by the inner
                        \* `except Exception: pass`; control goes on to mark
                        /\ ppc' = "mark"
                        /\ logs_col' = logs_col \cup
                             {<<IF ok THEN "deleted_duplicate_by_hash"
                                      ELSE "delete_failed_hash", pcur>>}
                        /\ UNCHANGED <<punfinished, pcur, poutcome>>
                   ELSE task_done_continue("duplicate_by_hash",
                             {<<IF ok THEN "deleted_duplicate_by_hash"
                                      ELSE "delete_failed_hash", pcur>>})
           ELSE /\ ppc' = "mark"
                /\ UNCHANGED <<punfinished, pcur, poutcome, logs_col,
                               pdeleted>>
    /\ UNCHANGED <<varsMore, varsFwd, varsClock, varsVid, varsSave, varsEnv, use_hash, pq, files_col, psent>>

\* worker: mark_seen(file_unique_id, meta)
worker_mark ==
    /\ variant = "proc"
    /\ ppc = "mark"
    /\ \/ \* insert_one raises: except -> log worker_exception; finally
          /\ log_action("worker_exception", pcur)
          /\ finally_task_done("exception")
          /\ UNCHANGED files_col
       \/ /\ mark_seen(msgUid[pcur], meta(pcur, phash))
          /\ ppc' = "send"
          /\ UNCHANGED <<punfinished, pcur, logs_col, poutcome>>
    /\ UNCHANGED <<varsMore, varsFwd, varsClock, varsVid, varsSave, varsEnv, use_hash, pdownloaded, pq, phash, psent, pdeleted>>

\* worker: send_video / send_document / send_animation of the cleaned media
worker_send ==
    /\ variant = "proc"
    /\ ppc = "send"
    /\ \/ /\ psent' = [psent EXCEPT ![pcur] = @ + 1]
          /\ ppc' = "sent"
          /\ UNCHANGED logs_col
       \/ \* the send raises: log send_failed, sent = None
          /\ log_action("send_failed", pcur)
          /\ ppc' = "unsent"
          /\ UNCHANGED psent
    /\ UNCHANGED <<varsMore, varsFwd, varsClock, varsVid, varsSave, varsEnv, use_hash, pdownloaded, pq, punfinished, files_col,
                   pcur, phash, pdeleted, poutcome>>

\* worker: delete the original, log "processed", finally: q.task_done()
worker_finish ==
    /\ variant = "proc"
    /\ ppc \in {"sent", "unsent"}
    /\ \E ok \in BOOLEAN :
        /\ pdeleted' = IF ok THEN pdeleted \cup {pcur} ELSE pdeleted
        /\ logs_col' = logs_col \cup {<<"processed", pcur>>} \cup
                       (IF ok THEN {} ELSE {<<"delete_original_failed", pcur>>})
    /\ finally_task_done(IF ppc = "sent" THEN "processed" ELSE "send_failed")
    /\ UNCHANGED <<varsMore, varsFwd, varsClock, varsVid, varsSave, varsEnv, use_hash, pdownloaded, pq, files_col, phash, psent>>

worker ==
    \/ worker_get
    \/ worker_idcheck
    \/ worker_dupdelete
    \/ worker_hash
    \/ worker_mark
    \/ worker_send
    \/ worker_finish

NextProc ==
    \/ \E u \in Uids : enqueue(u)
    \/ worker


\* =====================================================================
\* variant "vid": src/bot_instance.py, src/database.py, src/file_manager.py
\* =====================================================================

Users == {"alice", "bob"}
\* DatabaseManager._create_indexes: TTL index on files.timestamp
expireAfterSeconds == 2592000

\* Config.MAX_USER_REQUESTS_PER_DAY (default)
MAX_USER_REQUESTS_PER_DAY == 100

\* the clock advances in steps of half the TTL
ClockStep == expireAfterSeconds \div 2

NoSub == [user |-> "nobody", content |-> "none", file_hash |-> "None",
          is_duplicate |-> "unbound"]

InitVidVars ==
    /\ vfiles = {}
    /\ vlog = "none"
    /\ total_requests = [u \in Users |-> 0]
    /\ nextSub = 1
    /\ vpc = "idle"
    /\ vcur = NoSub
    /\ vsent = 0
    /\ vseen = "na"
    /\ vraised = "none"
    /\ vresult = "none"

\* hashlib.md5 over the file, as a hex digest
md5_hexdigest(content) == "md5:" \o content

\* FileManager.calculate_file_hash: the digest, or None when the file is
\* missing or cannot be read
calculate_file_hash(content) == {md5_hexdigest(content), "None"}

\* DatabaseManager.check_duplicate_file: find_one filtered by hash AND user
check_duplicate_file(file_hash, user_id) ==
    \E d \in vfiles : d.file_hash = file_hash /\ d.user_id = user_id

\* variation of violates_unique_file_hash: the unique index is compound,
\* on (file_hash, user_id)
violates_unique_per_user(file_hash) ==
    \E d \in vfiles : d.file_hash = file_hash /\ d.user_id = vcur.user

\* unique index on files.file_hash: would insert_one raise DuplicateKeyError
violates_unique_file_hash(file_hash) ==
    \E d \in vfiles : d.file_hash = file_hash

\* variation of save_file_record: DuplicateKeyError is not told apart from
\* the other exceptions and "" is returned
save_file_record_generic(file_hash) == ""

\* DatabaseManager.save_file_record: "duplicate" on DuplicateKeyError,
\* otherwise the id of the inserted document
save_file_record(file_hash) ==
    IF violates_unique_file_hash(file_hash) THEN "duplicate" ELSE "inserted"

\* variation of files_insert_one: the insert replaces the stored document
\* that has the same file_hash
files_upsert_one(file_data) ==
    {d \in vfiles : d.file_hash # file_data.file_hash} \cup {file_data}

\* db.files after self.db.files.insert_one(file_data): a document whose
\* file_hash is already present is refused by the unique index and the
\* collection stays as it was
files_insert_one(file_data) ==
    IF violates_unique_file_hash(file_data.file_hash)
    THEN vfiles
    ELSE vfiles \cup {file_data}

\* the file_record dict _process_video builds (lines 475-487); file_id,
\* file_name and file_size are stood for by the content they describe
file_record ==
    [file_hash |-> vcur.file_hash, user_id |-> vcur.user, timestamp |-> now,
     content |-> vcur.content]

\* DatabaseManager.log_activity: logs.insert_one, failures swallowed
log_activity(action) == vlog' = action

\* _process_video returns
vid_return(result) ==
    /\ vresult' = result
    /\ vpc' = "idle"
    /\ vcur' = NoSub

\* _process_video, `except Exception as e:` block: the error is shown to the
\* user and logged as processing_error; if both edit_text and reply_text
\* raise, the exception leaves the handler
vid_except ==
    \/ /\ log_activity("processing_error")
       /\ vid_return("error")
    \/ /\ UNCHANGED vlog
       /\ vid_return("escaped")

\* _process_video up to and including calculate_file_hash (lines 366-439)
vid_begin(user, content) ==
    /\ variant = "vid"
    /\ vpc = "idle"
    /\ nextSub <= MaxSubs
    /\ nextSub' = nextSub + 1
    /\ vsent' = 0
    /\ vseen' = "na"
    /\ vraised' = "none"
    /\ vlog' = "none"
    /\ \/ \* get_user / create_user / reply_text raise before the try block
          /\ vresult' = "escaped"
          /\ UNCHANGED <<vpc, vcur>>
       \/ \* daily limit reached
          /\ total_requests[user] >= MAX_USER_REQUESTS_PER_DAY
          /\ vresult' = "limit"
          /\ UNCHANGED <<vpc, vcur>>
       \/ \* file too large, download failed, or unsupported format
          /\ total_requests[user] < MAX_USER_REQUESTS_PER_DAY
          /\ vresult' \in {"too_large", "download_failed", "unsupported"}
          /\ UNCHANGED <<vpc, vcur>>
       \/ /\ total_requests[user] < MAX_USER_REQUESTS_PER_DAY
          /\ \E h \in calculate_file_hash(content) :
                vcur' = [user |-> user, content |-> content, file_hash |-> h,
                         is_duplicate |-> "unbound"]
          /\ vpc' = "check"
          /\ vresult' = "handling"
    /\ UNCHANGED <<varsMore, varsEnv, varsFwd, varsProc, varsSave, varsClock,
                   enable_duplicate_check,
                   vfiles, total_requests>>

\* _process_video: `if Config.ENABLE_DUPLICATE_CHECK and file_hash:` block
vid_check ==
    /\ variant = "vid"
    /\ vpc = "check"
    /\ IF enable_duplicate_check /\ vcur.file_hash # "None"
       THEN \/ /\ check_duplicate_file(vcur.file_hash, vcur.user)
               /\ log_activity("duplicate_detected")
               /\ vid_return("duplicate")
            \/ \* no match, or find_one raised (check returns False)
               /\ vcur' = [vcur EXCEPT !.is_duplicate = "False"]
               /\ vpc' = "save"
               /\ UNCHANGED <<vlog, vresult>>
       ELSE /\ vpc' = "save"
            /\ UNCHANGED <<vlog, vresult, vcur>>
    /\ UNCHANGED <<varsMore, varsEnv, varsFwd, varsProc, varsSave, varsClock,
                   enable_duplicate_check,
                   vfiles, total_requests, nextSub, vsent, vseen, vraised>>

\* what db.files holds for a hash, seen from one user
ledger_view(file_hash, user_id) ==
    IF \E d \in vfiles : d.file_hash = file_hash /\ d.user_id # user_id
    THEN "other_user"
    ELSE IF \E d \in vfiles : d.file_hash = file_hash
    THEN "same_user"
    ELSE "absent"

\* _process_video: file_id = await self.db.save_file_record(file_record)
\* and the `if file_id == "duplicate":` block
vid_save ==
    /\ variant = "vid"
    /\ vpc = "save"
    /\ vseen' = ledger_view(vcur.file_hash, vcur.user)
    /\ \/ \* insert_one raises something else: save_file_record returns ""
          /\ vraised' = "other"
          /\ vpc' = "send"
          /\ UNCHANGED <<vfiles, vresult, vcur>>
       \/ /\ vraised' = IF violates_unique_file_hash(vcur.file_hash)
                        THEN "DuplicateKeyError" ELSE "none"
          /\ vfiles' = files_insert_one(file_record)
          /\ IF save_file_record(vcur.file_hash) = "duplicate"
             THEN vid_return("duplicate_at_insert")
             ELSE /\ vpc' = "send"
                  /\ UNCHANGED <<vresult, vcur>>
    /\ UNCHANGED <<varsMore, varsEnv, varsFwd, varsProc, varsSave, varsClock,
                   enable_duplicate_check, vlog, total_requests, nextSub,
                   vsent>>

\* _process_video: reply_video, final message, stats, move_to_processed
vid_send ==
    /\ variant = "vid"
    /\ vpc = "send"
    /\ \/ \* reply_video raises
          /\ vid_except
          /\ UNCHANGED <<vsent, total_requests>>
       \/ \* sent; building stats_message reads is_duplicate, which is
          \* unbound when the duplicate check was skipped
          /\ vcur.is_duplicate = "unbound"
          /\ vsent' = vsent + 1
          /\ vid_except
          /\ UNCHANGED total_requests
       \/ /\ vcur.is_duplicate # "unbound"
          /\ vsent' = vsent + 1
          /\ total_requests' = [total_requests EXCEPT ![vcur.user] = @ + 1]
          /\ log_activity("video_processed")
          /\ vid_return("success")
    /\ UNCHANGED <<varsMore, varsEnv, varsFwd, varsProc, varsSave, varsClock,
                   enable_duplicate_check,
                   vfiles, nextSub, vseen, vraised>>

\* variation of ttl_expired: documents expire after half the TTL
ttl_expired_early(d) == d.timestamp + (expireAfterSeconds \div 2) <= now

\* MongoDB's TTL monitor: documents whose timestamp is expireAfterSeconds
\* old are removed in the background
ttl_expired(d) == d.timestamp + expireAfterSeconds <= now

ttl_monitor ==
    /\ variant = "vid"
    /\ \E d \in vfiles : ttl_expired(d)
    /\ vfiles' = {d \in vfiles : ~ttl_expired(d)}
    /\ UNCHANGED <<varsMore, varsEnv, varsFwd, varsProc, varsSave, varsClock,
                   enable_duplicate_check,
                   vlog, total_requests, nextSub, vpc, vcur, vsent, vseen,
                   vraised, vresult>>

\* DatabaseManager.delete_user_files
delete_user_files(user_id) ==
    /\ variant = "vid"
    /\ purges < MaxPurges
    /\ purges' = purges + 1
    /\ vfiles' = {d \in vfiles : d.user_id # user_id}
    /\ UNCHANGED <<varsMore, varsEnv, varsFwd, varsProc, varsSave, now,
                   enable_duplicate_check,
                   vlog, total_requests, nextSub, vpc, vcur, vsent, vseen,
                   vraised, vresult>>

\* time passes
tick ==
    /\ variant \in {"vid", "save"}
    /\ now < MaxTicks * ClockStep
    /\ now' = now + ClockStep
    /\ UNCHANGED <<varsMore, varsEnv, varsFwd, varsProc, varsVid, varsSave, purges>>

NextVid ==
    \/ \E u \in Users, c \in {"c1", "c2"} : vid_begin(u, c)
    \/ vid_check
    \/ vid_save
    \/ vid_send
    \/ ttl_monitor
    \/ \E u \in Users : delete_user_files(u)
    \/ tick


\* =====================================================================
\* variant "save": database.py (class MongoDB)
\* =====================================================================

FileIds == {"f1", "f2"}
\* cleanup_old_files(days=30): timedelta(days=30), in seconds
cleanup_age == 30 * 24 * 3600

InitSaveVars ==
    /\ mfiles = {}
    /\ mlast = [file_id |-> "none", file_hash |-> "none", timestamp |-> 0]

\* MongoDB.find_file_by_id
find_file_by_id(file_id) == {d \in mfiles : d.file_id = file_id}

\* MongoDB.save_file: insert_one; on DuplicateKeyError (unique index on
\* file_id) update_one({"file_id": ...}, {"$set": file_data})
save_file_result(file_data) ==
    IF find_file_by_id(file_data.file_id) = {}
    THEN mfiles \cup {file_data}
    ELSE {d \in mfiles : d.file_id # file_data.file_id} \cup {file_data}

save_file(file_id, file_hash) ==
    /\ variant = "save"
    /\ LET file_data == [file_id |-> file_id, file_hash |-> file_hash,
                         timestamp |-> now]
       IN /\ mlast' = file_data
          /\ \/ mfiles' = save_file_result(file_data)
             \/ \* another exception: print, return False
                UNCHANGED mfiles
    /\ UNCHANGED <<varsMore, varsEnv, varsFwd, varsProc, varsVid, varsClock>>

\* MongoDB.delete_file
delete_file(file_id) ==
    /\ variant = "save"
    /\ purges < MaxPurges
    /\ purges' = purges + 1
    /\ mfiles' = mfiles \ find_file_by_id(file_id)
    /\ UNCHANGED <<varsMore, varsEnv, varsFwd, varsProc, varsVid, now, mlast>>

\* MongoDB.cleanup_old_files(days=30)
cleanup_old_files ==
    /\ variant = "save"
    /\ purges < MaxPurges
    /\ purges' = purges + 1
    /\ LET cutoff_date == now - cleanup_age
       IN mfiles' = {d \in mfiles : ~(d.timestamp < cutoff_date)}
    /\ UNCHANGED <<varsMore, varsEnv, varsFwd, varsProc, varsVid, now, mlast>>

NextSave ==
    \/ \E f \in FileIds, h \in {"h1", "h2"} : save_file(f, h)
    \/ \E f \in FileIds : delete_file(f)
    \/ cleanup_old_files
    \/ tick

\* =====================================================================
\* variant "tfb": bot.py (TelegramForwardBot, DatabaseManager)
\* =====================================================================

Deliveries == 1..MaxDeliveries

\* ids of the videos posted in the source channel
SourceIds == {"m1", "m2"}

\* event.chat_id is an integer; _process_message stores str(source_channel)
chat_id == [type |-> "int", value |-> "SOURCE_CHANNEL"]
str(x) == [type |-> "str", value |-> x.value]

\* what client.send_file can raise
SendErrors == {"FloodWaitError", "ChannelPrivateError",
               "ChatAdminRequiredError", "Exception"}

InitTfbVars ==
    /\ tmessages = {}
    /\ nextDeliv = 1
    /\ tsrc = [d \in Deliveries |-> "none"]
    /\ tpc = [d \in Deliveries |-> "none"]
    /\ tstatus = [d \in Deliveries |-> "none"]
    /\ tsendCalls = [d \in Deliveries |-> 0]
    /\ tfloods = [d \in Deliveries |-> 0]
    /\ tsent = [s \in SourceIds |-> 0]
    /\ tsaved = [d \in Deliveries |-> "none"]

\* DatabaseManager.is_message_forwarded: find_one on both fields, compared
\* with the types the caller passes
is_message_forwarded(source_message_id, source_channel) ==
    \E r \in tmessages : /\ r.source_message_id = source_message_id
                         /\ r.source_channel = source_channel

\* the unique index unique_message on (source_message_id, source_channel)
violates_unique_message(message_data) ==
    \E r \in tmessages :
        /\ r.source_message_id = message_data.source_message_id
        /\ r.source_channel = message_data.source_channel

\* message_data as _process_message builds it; destination_message_id and
\* forwarded_at differ from call to call and are stood for by the call
message_data(d) ==
    [source_message_id |-> tsrc[d], source_channel |-> str(chat_id),
     status |-> tstatus[d], forwarded_by |-> d]

\* variation of messages_insert_one: an existing record is replaced
messages_replace_one(message_data_) ==
    {r \in tmessages :
        ~(/\ r.source_message_id = message_data_.source_message_id
          /\ r.source_channel = message_data_.source_channel)}
    \cup {message_data_}

\* messages.insert_one under the unique index
messages_insert_one(message_data_) ==
    IF violates_unique_message(message_data_)
    THEN tmessages
    ELSE tmessages \cup {message_data_}

\* variation of retries_after: every failed send is attempted again
retries_after_any(error) == error \in SendErrors

\* _process_message: the except clause that calls _process_message again
retries_after(error) == error = "FloodWaitError"

\* new_message_handler: Telethon runs one _process_message per event
new_message_handler(s) ==
    /\ variant = "tfb"
    /\ nextDeliv <= MaxDeliveries
    /\ nextDeliv' = nextDeliv + 1
    /\ tsrc' = [tsrc EXCEPT ![nextDeliv] = s]
    /\ \/ \* MediaValidator.is_video is false
          tpc' = [tpc EXCEPT ![nextDeliv] = "not_video"]
       \/ tpc' = [tpc EXCEPT ![nextDeliv] = "check"]
    /\ UNCHANGED <<varsOffTfb, tmessages, tstatus, tsendCalls, tfloods, tsent,
                   tsaved>>

\* _process_message: is_message_forwarded and the file size limit
tfb_check(d) ==
    /\ variant = "tfb"
    /\ tpc[d] = "check"
    /\ \/ /\ is_message_forwarded(tsrc[d], chat_id)
          /\ tpc' = [tpc EXCEPT ![d] = "skipped"]
       \/ \* no record found, or find_one raised (False is returned)
          /\ \/ tpc' = [tpc EXCEPT ![d] = "too_large"]
             \/ tpc' = [tpc EXCEPT ![d] = "send"]
    /\ UNCHANGED <<varsOffTfb, tmessages, nextDeliv, tsrc, tstatus, tsendCalls,
                   tfloods, tsent, tsaved>>

\* _process_message: client.send_file and the except clauses after it
tfb_send(d) ==
    /\ variant = "tfb"
    /\ tpc[d] = "send"
    /\ tsendCalls' = [tsendCalls EXCEPT ![d] = @ + 1]
    /\ \/ \* sent
          /\ tsent' = [tsent EXCEPT ![tsrc[d]] = @ + 1]
          /\ tstatus' = [tstatus EXCEPT ![d] = "success"]
          /\ tpc' = [tpc EXCEPT ![d] = "save"]
          /\ UNCHANGED tfloods
       \/ \E error \in SendErrors :
              /\ tfloods' = [tfloods EXCEPT
                    ![d] = IF error = "FloodWaitError" THEN @ + 1 ELSE @]
              /\ IF retries_after(error)
                 THEN /\ tsendCalls[d] < MaxFloods
                      /\ tpc' = [tpc EXCEPT ![d] = "sleep"]
                      /\ UNCHANGED tstatus
                 ELSE /\ tstatus' = [tstatus EXCEPT ![d] = "failed"]
                      /\ tpc' = [tpc EXCEPT ![d] = "save"]
              /\ UNCHANGED tsent
    /\ UNCHANGED <<varsOffTfb, tmessages, nextDeliv, tsrc, tsaved>>

\* _process_message: asyncio.sleep(e.seconds + 5), then
\* `await self._process_message(event)`
tfb_retry(d) ==
    /\ variant = "tfb"
    /\ tpc[d] = "sleep"
    /\ tpc' = [tpc EXCEPT ![d] = "check"]
    /\ UNCHANGED <<varsOffTfb, tmessages, nextDeliv, tsrc, tstatus, tsendCalls,
                   tfloods, tsent, tsaved>>

\* DatabaseManager.save_message, called with the success or failed record
save_message(d) ==
    /\ variant = "tfb"
    /\ tpc[d] = "save"
    /\ \/ \* insert_one raises something else: None is returned
          /\ tsaved' = [tsaved EXCEPT ![d] = "error"]
          /\ UNCHANGED tmessages
       \/ /\ tsaved' = [tsaved EXCEPT ![d] =
                IF violates_unique_message(message_data(d))
                THEN "DuplicateKeyError" ELSE "inserted"]
          /\ tmessages' = messages_insert_one(message_data(d))
    /\ tpc' = [tpc EXCEPT ![d] = IF tstatus[d] = "success"
                                 THEN "forwarded" ELSE "failed"]
    /\ UNCHANGED <<varsOffTfb, nextDeliv, tsrc, tstatus, tsendCalls, tfloods,
                   tsent>>

NextTfb ==
    \/ \E s \in SourceIds : new_message_handler(s)
    \/ \E d \in Deliveries : tfb_check(d)
    \/ \E d \in Deliveries : tfb_send(d)
    \/ \E d \in Deliveries : tfb_retry(d)
    \/ \E d \in Deliveries : save_message(d)

\* =====================================================================
\* variants "tmp" and "core": the files under temp/
\*   "tmp"  src/bot_instance.py + src/file_manager.py (downloads, sweep)
\*   "core" bot_core.py + video_processor.py + helpers.py
\* =====================================================================

\* FileManager.cleanup_temp_files: temp_dirs, in the order they are swept
temp_dirs == <<"temp/downloads", "temp/processed", "temp/trash">>

\* _periodic_cleanup: asyncio.sleep(6 * 3600), older_than_hours=24
SleepHours == 6
older_than_hours == 24

NoFile == [dir |-> "none", id |-> 0, mtime |-> 0]

NoExit == [path |-> "none", move_raised |-> FALSE, removes_raised |-> FALSE]

InitTmpVars ==
    /\ tfs = {}
    /\ clock = 0
    /\ lastSweep = 0
    /\ cleanup_task = "sleeping"
    /\ sweep_removed = {}
    /\ sweep_failed = {}
    /\ sweep_aborted = "none"
    /\ jnext = 1
    /\ jpc = "idle"
    /\ jfile = NoFile
    /\ jexit = NoExit

\* frame sizes of the videos given to remove_watermark
\* rectangle parameter strings, as their key=value pairs: "" (nothing),
\* "w=150:x=iw-160", "x=abc:y=ih-40:h=20" and "x=5:y=5:w=20:h=10"
ParamStrings ==
    { <<>>,
      <<[key |-> "w", form |-> "int", n |-> 150],
        [key |-> "x", form |-> "edge", n |-> 160]>>,
      <<[key |-> "x", form |-> "junk", n |-> 0],
        [key |-> "y", form |-> "edge", n |-> 40],
        [key |-> "h", form |-> "int", n |-> 20]>>,
      <<[key |-> "x", form |-> "int", n |-> 5],
        [key |-> "y", form |-> "int", n |-> 5],
        [key |-> "w", form |-> "int", n |-> 20],
        [key |-> "h", form |-> "int", n |-> 10]>> }

NoRect == [x |-> 0, y |-> 0, w |-> 0, h |-> 0]

InitCoreVars ==
    /\ wm_exit = "none"
    /\ wm_result = "none"
    /\ wm_frame = [w |-> 0, h |-> 0]
    /\ wm_params = <<>>
    /\ wm_rect = NoRect

DirIndex(dir) == CHOOSE i \in 1..Len(temp_dirs) : temp_dirs[i] = dir

\* the directories a sweep lists before os.listdir raises for `aborted`
listed_dirs(aborted) ==
    {temp_dirs[i] : i \in {k \in 1..Len(temp_dirs) :
        aborted = "none" \/ k < DirIndex(aborted)}}

\* the orders in which a sweep can meet the files: directory by
\* directory, os.listdir order within a directory
listings(files) ==
    {seq \in [1..Cardinality(files) -> files] :
        /\ \A i, j \in 1..Cardinality(files) : i # j => seq[i] # seq[j]
        /\ \A i, j \in 1..Cardinality(files) :
              i < j => DirIndex(seq[i].dir) <= DirIndex(seq[j].dir)}

RECURSIVE removed_files(_, _, _)

\* variation of after_remove_error: the error leaves the loop
after_remove_error_abort(rest, cutoff_time, fail) == {}

\* cleanup_temp_files: `except Exception as e: logger.error(...)` around
\* os.remove; the loop goes on with the next file
after_remove_error(rest, cutoff_time, fail) ==
    removed_files(rest, cutoff_time, fail)

\* cleanup_temp_files: the loop over the listed files; the files it removes
removed_files(seq, cutoff_time, fail) ==
    IF seq = <<>> THEN {}
    ELSE LET f == Head(seq) IN
         IF f.mtime < cutoff_time
         THEN IF f \in fail
              THEN after_remove_error(Tail(seq), cutoff_time, fail)
              ELSE {f} \cup removed_files(Tail(seq), cutoff_time, fail)
         ELSE removed_files(Tail(seq), cutoff_time, fail)

\* variation of cutoff: the age is not subtracted
cutoff_now(older_than) == clock

\* cleanup_temp_files: cutoff_time, in hours
cutoff(older_than) == clock - older_than

\* _periodic_cleanup: `except Exception`, then the next turn of the loop
periodic_after(sweep_outcome) == "sleeping"

\* FileManager.cleanup_temp_files(older_than_hours=24), run by
\* _periodic_cleanup when its sleep is over
cleanup_temp_files ==
    /\ variant = "tmp"
    /\ cleanup_task = "sleeping"
    /\ clock >= lastSweep + SleepHours
    /\ lastSweep' = clock
    /\ \E aborted \in {"none"} \cup {temp_dirs[i] : i \in 1..Len(temp_dirs)} :
       LET listed == {f \in tfs : f.dir \in listed_dirs(aborted)}
           stale == {f \in listed : f.mtime < cutoff(older_than_hours)}
       IN \E fail \in SUBSET stale, seq \in listings(listed) :
            /\ sweep_removed' =
                    removed_files(seq, cutoff(older_than_hours), fail)
            /\ tfs' = tfs \ sweep_removed'
            /\ sweep_failed' = fail
            /\ sweep_aborted' = aborted
            /\ cleanup_task' = periodic_after(aborted)
    /\ UNCHANGED <<varsOffTmp, varsCore, clock, jnext, jpc, jfile>>

\* variation of shutdown_targets: the subdirectories are walked as well
shutdown_targets_recursive(files) == files

\* helpers.cleanup_temp_files: os.listdir("temp"), entries that are not
\* regular files (the subdirectories) are left alone
shutdown_targets(files) == {f \in files : f.dir = "temp"}

\* helpers.cleanup_temp_files, run by VideoForwardBot.on_shutdown: every
\* regular file directly in temp/ is unlinked, failures are printed
cleanup_temp_files_on_shutdown ==
    /\ variant \in {"tmp", "core"}
    /\ \E fail \in SUBSET shutdown_targets(tfs) :
          tfs' = (tfs \ shutdown_targets(tfs)) \cup fail
    /\ UNCHANGED <<varsOffTmp, varsCore, clock, lastSweep, cleanup_task,
                   sweep_removed, sweep_failed, sweep_aborted, jnext, jpc, jfile>>

\* _process_video: file_manager.download_file wrote the video to
\* Config.DOWNLOAD_DIR
job_download ==
    /\ variant = "tmp"
    /\ jpc = "idle"
    /\ jnext <= MaxJobs
    /\ jnext' = jnext + 1
    /\ LET f == [dir |-> "temp/downloads", id |-> jnext, mtime |-> clock]
       IN /\ tfs' = tfs \cup {f}
          /\ jfile' = f
    /\ jpc' = "inflight"
    /\ jexit' = NoExit
    /\ UNCHANGED <<varsOffJob, varsCore, clock, lastSweep, cleanup_task,
                   sweep_removed, sweep_failed, sweep_aborted>>

\* FileManager.move_to_processed (shutil.move keeps the mtime)
move_to_processed(f) ==
    IF f \in tfs
    THEN (tfs \ {f}) \cup {[f EXCEPT !.dir = "temp/processed"]}
    ELSE tfs

\* `if os.path.exists(file_path): os.remove(file_path)`: the files left
\* when os.remove works or raises
os_remove(files, f, raises) == IF raises THEN files ELSE files \ {f}

\* variation of finally_remove: _process_video has no finally clause
finally_remove_nothing(files, f, raises) == files

\* _process_video, finally clause: the file is removed if it still exists;
\* an error of os.remove is swallowed
finally_remove(files, f, raises) == os_remove(files, f, raises)

\* _process_video after the download.  unsupported / duplicate /
\* duplicate_at_insert remove the file inside the try block; if that raises
\* the except block runs and the finally clause tries again.  success moves
\* the file to temp/processed; if shutil.move raises, move_to_processed
\* returns the old path and the finally clause removes the file.  An
\* exception anywhere else leaves the removal to the finally clause.
job_end ==
    /\ variant = "tmp"
    /\ jpc = "inflight"
    /\ \E path \in {"unsupported", "duplicate", "duplicate_at_insert",
                    "success", "exception"},
          raises1 \in BOOLEAN, raises2 \in BOOLEAN :
        /\ path = "success" => jfile \in tfs
        /\ path \in {"success", "exception"} => ~raises1
        /\ jfile \notin tfs => ~raises1 /\ ~raises2
        /\ ~raises1 /\ path \notin {"success", "exception"} => ~raises2
        /\ IF path = "success"
           THEN \E move_raises \in BOOLEAN :
                /\ ~move_raises => ~raises2
                /\ tfs' = IF move_raises
                          THEN finally_remove(tfs, jfile, raises2)
                          ELSE move_to_processed(jfile)
                /\ jexit' = [path |-> path, move_raised |-> move_raises,
                             removes_raised |-> raises2]
           ELSE IF path = "exception"
           THEN /\ tfs' = finally_remove(tfs, jfile, raises2)
                /\ jexit' = [path |-> path, move_raised |-> FALSE,
                             removes_raised |-> raises2]
           ELSE /\ tfs' = IF raises1
                          THEN finally_remove(tfs, jfile, raises2)
                          ELSE os_remove(tfs, jfile, FALSE)
                /\ jexit' = [path |-> path, move_raised |-> FALSE,
                             removes_raised |-> raises1 /\ raises2]
    /\ jpc' = "idle"
    /\ jfile' = NoFile
    /\ UNCHANGED <<varsOffJob, varsCore, clock, lastSweep, cleanup_task,
                   sweep_removed, sweep_failed, sweep_aborted, jnext>>

\* six hours pass
sleep_over ==
    /\ variant = "tmp"
    /\ clock < MaxSleeps * SleepHours
    /\ clock' = clock + SleepHours
    /\ UNCHANGED <<varsOffTmp, varsCore, tfs, lastSweep, cleanup_task,
                   sweep_removed, sweep_failed, sweep_aborted, jnext, jpc, jfile>>

\* remove_watermark: `except Exception as e: ... return video_path`
remove_watermark_except(video_path) == video_path

\* remove_watermark: what it returns, given ffmpeg's exit status and
\* whether output_path exists afterwards
remove_watermark_result(exit, output_exists) ==
    IF exit = 0
    THEN IF output_exists THEN "output_path" ELSE "video_path"
    ELSE remove_watermark_except("video_path")

\* the '-vf' argument of remove_watermark's ffmpeg command:
\* 'delogo=x=10:y=10:w=100:h=30:show=0', whatever the video and whatever
\* rectangle was asked for
delogo(frame, params) == [x |-> 10, y |-> 10, w |-> 100, h |-> 30]

\* VideoProcessor.remove_watermark(video_path): the method takes the path
\* only; the frame size is a property of the file and the parameter string
\* never reaches it
remove_watermark ==
    /\ variant = "core"
    /\ \E frame \in {[w |-> 640, h |-> 360], [w |-> 300, h |-> 200],
                     [w |-> 100, h |-> 30]},
          params \in ParamStrings :
        /\ wm_frame' = frame
        /\ wm_params' = params
        /\ IF ~REMOVE_WATERMARK
           THEN /\ wm_exit' = "not_run"
                /\ wm_result' = "video_path"
                /\ wm_rect' = NoRect
                /\ UNCHANGED tfs
           ELSE \E exit \in {0, 1}, written \in BOOLEAN :
                LET out == [dir |-> "temp", id |-> 0, mtime |-> 0]
                IN /\ tfs' = IF written THEN tfs \cup {out} ELSE tfs
                   /\ wm_exit' = IF exit = 0 THEN "zero" ELSE "nonzero"
                   /\ wm_rect' = delogo(frame, params)
                   /\ wm_result' = remove_watermark_result(exit, out \in tfs')
    /\ UNCHANGED <<varsOffTmp, REMOVE_WATERMARK, clock, lastSweep,
                   cleanup_task, sweep_removed, sweep_failed, sweep_aborted,
                   jnext, jpc, jfile>>

NextTmp ==
    \/ cleanup_temp_files
    \/ cleanup_temp_files_on_shutdown
    \/ job_download
    \/ job_end
    \/ sleep_over

NextCore ==
    \/ remove_watermark
    \/ cleanup_temp_files_on_shutdown

\* =====================================================================
\* variant "prog": progress reporting of one removal job (the part of
\* handle_video that bot_handlers.py lacks; helpers.create_progress_message
\* renders the percent it emits)
\* =====================================================================


\* 1.5 seconds, in half-seconds
ThrottleTicks == 3
\* the least difference in percent that is emitted at once
ThrottleDelta == 2
\* Inpaint: ceiling of the percent until the writer is closed
OpenWriterCap == 90

InitProgVars ==
    /\ method \in (IF variant = "prog" THEN {"FilterGraph", "Inpaint"} ELSE {"none"})
    /\ duration \in (IF method = "FilterGraph"
                     THEN {0, MaxSeconds \div 2, MaxSeconds} ELSE {0})
    /\ totalFrameCount \in (IF method = "Inpaint"
                            THEN {0, MaxFrames} ELSE {0})
    /\ currentSeconds = 0
    /\ frameIndex = 0
    /\ status = IF variant = "prog" THEN "Processing" ELSE "none"
    /\ lastPercent = 0
    /\ sinceEmit = 0
    /\ emitFlip = 0

clamp(lo, hi, n) == IF n < lo THEN lo ELSE IF n > hi THEN hi ELSE n

\* round(part / whole * 100), halves rounded up
round_percent(part, whole) == (200 * part + whole) \div (2 * whole)

\* FilterGraph: percent of a time= token
percent_of_time(seconds) ==
    IF duration = 0 THEN 0
    ELSE clamp(0, 100, round_percent(seconds, duration))

\* Inpaint: percent after a frame, while the writer is open
percent_of_frame(index) ==
    clamp(0, OpenWriterCap, round_percent(index, totalFrameCount))

\* variation of should_emit: every progress signal is emitted
should_emit_always(percent, last, elapsed) == TRUE

\* the throttle: a new percent is emitted when it differs from the last
\* emitted one by at least 2 or at least 1.5 s have passed since
should_emit(percent, last, elapsed) ==
    \/ percent - last >= ThrottleDelta
    \/ last - percent >= ThrottleDelta
    \/ elapsed >= ThrottleTicks

\* variation of final_percent: the job ends with the percent it had reached
final_percent_reached(reached) == reached

\* the update of a job that completes is forced to 100
final_percent(reached) == 100

emit(percent) ==
    /\ lastPercent' = percent
    /\ sinceEmit' = 0
    /\ emitFlip' = 1 - emitFlip

onProgress(percent) ==
    IF should_emit(percent, lastPercent, sinceEmit)
    THEN emit(percent)
    ELSE UNCHANGED <<lastPercent, sinceEmit, emitFlip>>

\* FilterGraph: a line of the diagnostic stream carries a time= token; the
\* position it reports is not behind the one before
time_token ==
    /\ variant = "prog"
    /\ method = "FilterGraph"
    /\ status = "Processing"
    /\ \E seconds \in currentSeconds..MaxSeconds :
        /\ currentSeconds' = seconds
        /\ onProgress(percent_of_time(seconds))
    /\ UNCHANGED <<varsOffProg, method, duration, totalFrameCount,
                   frameIndex, status>>

\* Inpaint: one more frame is reconstructed and written
frame_written ==
    /\ variant = "prog"
    /\ method = "Inpaint"
    /\ status = "Processing"
    /\ frameIndex < totalFrameCount
    /\ frameIndex' = frameIndex + 1
    /\ onProgress(percent_of_frame(frameIndex + 1))
    /\ UNCHANGED <<varsOffProg, method, duration, totalFrameCount,
                   currentSeconds, status>>

\* half a second passes
half_second ==
    /\ variant = "prog"
    /\ status = "Processing"
    /\ sinceEmit < ThrottleTicks
    /\ sinceEmit' = sinceEmit + 1
    /\ UNCHANGED <<varsOffProg, method, duration, totalFrameCount,
                   currentSeconds, frameIndex, status, lastPercent, emitFlip>>

\* the subprocess exits with status 0, or the last frame is written and the
\* writer is closed: the job is Done and its final update is emitted
job_done ==
    /\ variant = "prog"
    /\ status = "Processing"
    /\ method = "Inpaint" => totalFrameCount > 0 /\ frameIndex = totalFrameCount
    /\ status' = "Done"
    /\ emit(final_percent(lastPercent))
    /\ UNCHANGED <<varsOffProg, method, duration, totalFrameCount,
                   currentSeconds, frameIndex>>

\* non-zero exit, unreadable frame count or a frame that does not decode
job_failed ==
    /\ variant = "prog"
    /\ status = "Processing"
    /\ status' = "Failed"
    /\ UNCHANGED <<varsOffProg, method, duration, totalFrameCount,
                   currentSeconds, frameIndex, lastPercent, sinceEmit,
                   emitFlip>>

NextProg ==
    \/ time_token
    \/ frame_written
    \/ half_second
    \/ job_done
    \/ job_failed

\* =====================================================================
\* variant "quota": src/bot_instance.py and src/database.py, the request
\* counter of a user over several days
\* =====================================================================

\* the users whose counter is followed
QuotaUsers == {"alice"}

InitQuotaVars ==
    /\ qday = 0
    /\ today_requests = [u \in Users |-> 0]
    /\ qresult = "none"

\* DatabaseManager.update_user_stats: $inc total_requests by 1
update_user_stats(user_id) ==
    [total_requests EXCEPT ![user_id] = @ + 1]

\* _process_video: `if user_data.get('total_requests', 0) >=
\* Config.MAX_USER_REQUESTS_PER_DAY and not is_premium`, for a user who is
\* not premium
daily_limit_reached(user_id) ==
    total_requests[user_id] >= MAX_USER_REQUESTS_PER_DAY

\* _process_video, as far as the counter goes: the limit check, then either
\* an early return or failure (nothing counted) or update_user_stats
quota_video(user) ==
    /\ variant = "quota"
    /\ user \in QuotaUsers
    /\ total_requests[user] < MaxRequests
    /\ IF daily_limit_reached(user)
       THEN /\ qresult' = "limit"
            /\ UNCHANGED <<total_requests, today_requests>>
       ELSE \/ /\ qresult' = "processed"
               /\ total_requests' = update_user_stats(user)
               /\ today_requests' = [today_requests EXCEPT ![user] = @ + 1]
            \/ /\ qresult' = "not_processed"
               /\ UNCHANGED <<total_requests, today_requests>>
    /\ UNCHANGED <<varsOffQuota, qday>>

\* handle_text: the text is cleaned and update_user_stats is called; no
\* limit is checked
quota_text(user) ==
    /\ variant = "quota"
    /\ user \in QuotaUsers
    /\ total_requests[user] < MaxRequests
    /\ total_requests' = update_user_stats(user)
    /\ today_requests' = [today_requests EXCEPT ![user] = @ + 1]
    /\ qresult' = "text"
    /\ UNCHANGED <<varsOffQuota, qday>>

\* midnight (UTC): a new day begins
new_day ==
    /\ variant = "quota"
    /\ qday < MaxDays
    /\ qday' = qday + 1
    /\ today_requests' = [u \in Users |-> 0]
    /\ UNCHANGED <<varsOffQuota, total_requests, qresult>>

NextQuota ==
    \/ \E user \in Users : quota_video(user) \/ quota_text(user)
    \/ new_day

\* =====================================================================
\* specifications
\* =====================================================================

\* the configuration switches matter only to the variant that reads them
Init ==
    /\ variant \in {"fwd", "proc", "vid", "save", "tfb", "tmp", "core",
                    "prog", "quota"}
    /\ use_hash \in (IF variant = "proc" THEN BOOLEAN ELSE {FALSE})
    /\ enable_duplicate_check \in (IF variant = "vid" THEN BOOLEAN ELSE {TRUE})
    /\ now = 0
    /\ purges = 0
    /\ msgUid = [m \in Msgs |-> "none"]
    /\ nextMsg = 1
    /\ InitFwdVars
    /\ InitProcVars
    /\ InitVidVars
    /\ InitSaveVars
    /\ InitTfbVars
    /\ REMOVE_WATERMARK \in (IF variant = "core" THEN BOOLEAN ELSE {FALSE})
    /\ InitTmpVars
    /\ InitCoreVars
    /\ InitProgVars
    /\ InitQuotaVars

Next ==
    \/ NextFwd \/ NextProc \/ NextVid \/ NextSave \/ NextTfb
    \/ NextTmp \/ NextCore \/ NextProg \/ NextQuota

Spec == Init /\ [][Next]_vars

\* the progress reporter of a removal job
InitProgress == Init /\ variant = "prog"
SpecProgress == InitProgress /\ [][NextProg]_vars

\* the request counter of a user
InitQuotaOnly == Init /\ variant = "quota"
SpecQuota == InitQuotaOnly /\ [][NextQuota]_vars

\* the four bots that keep a ledger of what they have seen
InitStores == Init /\ variant \in {"fwd", "proc", "vid", "save"}
SpecStores == InitStores /\ [][NextFwd \/ NextProc \/ NextVid \/ NextSave]_vars

\* the two queue-and-worker bots
InitQueue == Init /\ variant \in {"fwd", "proc"}
NextQueue == NextFwd \/ NextProc
SpecQueue == InitQueue /\ [][NextQueue]_vars

\* the two queue-and-worker bots with workers that are scheduled fairly:
\* the worker thread of main.start and the worker task of bot.main each take
\* their next step whenever they have one
SpecQueueFair ==
    InitQueue /\ [][NextQueue]_vars
         /\ (\A w \in Workers : WF_vars(process(w)))
         /\ WF_vars(worker)

\* the two bots that keep a ledger of file records
NextLedger == NextVid \/ NextSave
InitLedger == Init /\ variant \in {"vid", "save"}
SpecLedger == InitLedger /\ [][NextLedger]_vars

\* the bots that write and clean the temp tree
NextTemp == NextTmp \/ NextCore
InitTemp == Init /\ variant \in {"tmp", "core"}
SpecTemp == InitTemp /\ [][NextTemp]_vars

\* the two bots that forward channel posts
NextRelay == NextFwd \/ NextTfb
InitRelay == Init /\ variant \in {"fwd", "tfb"}
SpecRelay == InitRelay /\ [][NextRelay]_vars

\* =====================================================================
\* properties
\* =====================================================================

\* handlings that ran to their end without a database exception
HandledFwd(m) ==
    outcome[m] \in {"duplicate", "copy_failed", "insert_failed", "forwarded"}
HandledProc(m) ==
    poutcome[m] \in {"duplicate", "duplicate_by_hash", "processed",
                     "send_failed"}

\* m is the first handled message that carries its file_unique_id
FirstFwd(m) ==
    \A i \in Msgs : i < m => ~(msgUid[i] = msgUid[m] /\ HandledFwd(i))
FirstProc(m) ==
    \A i \in Msgs : i < m => ~(msgUid[i] = msgUid[m] /\ HandledProc(i))

\* C1 -- Dedup idempotence: of the messages with one file_unique_id that the
\* queue worker handles (not dropped while paused, nothing purged), the first
\* is the only one for which a copy/send is performed; every later one ends
\* as a duplicate with no copy/send.
C1_DedupIdempotence ==
    /\ \A m \in Msgs : HandledFwd(m) =>
          IF FirstFwd(m)
          THEN outcome[m] # "duplicate" /\ copyCalls[m] = 1
          ELSE outcome[m] = "duplicate" /\ copyCalls[m] = 0 /\ copied[m] = 0
    /\ \A m \in Msgs : HandledProc(m) =>
          IF FirstProc(m)
          THEN poutcome[m] \in {"processed", "send_failed"} /\ psent[m] <= 1
          ELSE poutcome[m] = "duplicate" /\ psent[m] = 0

C1_Witness ==
    \E i, j \in Msgs :
        /\ i < j
        /\ msgUid[i] = msgUid[j]
        /\ outcome[i] = "forwarded"
        /\ outcome[j] = "duplicate"

C3_HashModeMatch ==
    (variant = "proc" /\ use_hash) =>
        \A d1, d2 \in files_col :
            (/\ d1 # d2
             /\ "file_hash" \in DOMAIN d1.meta
             /\ "file_hash" \in DOMAIN d2.meta)
            => d1.meta.file_hash # d2.meta.file_hash

C5_LedgerPermanence ==
    [][ /\ \A u \in Uids : dup_col[u] > 0 => dup_col'[u] > 0
        /\ \A d \in files_col :
              \E e \in files_col' : e.file_unique_id = d.file_unique_id
        /\ \A d \in vfiles :
              \/ \E e \in vfiles' : e.file_hash = d.file_hash
              \/ purges' > purges
        /\ \A d \in mfiles :
              \/ \E e \in mfiles' : e.file_id = d.file_id
              \/ purges' > purges ]_vars

\* C5 (amended) -- a registered key stays registered unless an explicit purge
\* operation is invoked or, in DatabaseManager's files collection, the entry
\* has reached the age of the TTL index (expireAfterSeconds, 30 days).
C5_LedgerPermanenceUpToTTL ==
    [][ /\ \A u \in Uids : dup_col[u] > 0 => dup_col'[u] > 0
        /\ \A d \in files_col :
              \E e \in files_col' : e.file_unique_id = d.file_unique_id
        /\ \A d \in vfiles :
              \/ \E e \in vfiles' : e.file_hash = d.file_hash
              \/ purges' > purges
              \/ d.timestamp + expireAfterSeconds <= now
        /\ \A d \in mfiles :
              \/ \E e \in mfiles' : e.file_id = d.file_id
              \/ purges' > purges ]_vars

\* the only submission so far was accepted and recorded, nothing was purged,
\* and its record is gone
C5_Witness ==
    /\ variant = "vid"
    /\ nextSub = 2
    /\ vresult = "success"
    /\ vraised = "none"
    /\ vseen = "absent"
    /\ purges = 0
    /\ vfiles = {}

\* C6 (as stated) -- Ledger entries are write-once: as long as a key stays in
\* a ledger, the entry stored for it keeps all its fields.
C6_WriteOnce ==
    [][ /\ \A d \in files_col :
              (\E e \in files_col' : e.file_unique_id = d.file_unique_id)
              => d \in files_col'
        /\ \A d \in vfiles :
              (\E e \in vfiles' : e.file_hash = d.file_hash) => d \in vfiles'
        /\ \A d \in mfiles :
              (\E e \in mfiles' : e.file_id = d.file_id) => d \in mfiles'
      ]_vars

\* C6 (amended) -- entries written by mark_seen and by save_file_record are
\* write-once; in MongoDB.save_file a later save for a stored file_id
\* replaces the entry's fields by those of the new file_data.
C6_WriteOnceExceptSaveFile ==
    [][ /\ \A d \in files_col :
              (\E e \in files_col' : e.file_unique_id = d.file_unique_id)
              => d \in files_col'
        /\ \A d \in vfiles :
              (\E e \in vfiles' : e.file_hash = d.file_hash) => d \in vfiles'
        /\ \A d \in mfiles : \A e \in mfiles' :
              (e.file_id = d.file_id /\ e # d) => e = mlast'
      ]_vars

\* a later save hit the one stored entry (of another user), which still
\* carries its earlier timestamp
C6_Witness ==
    /\ vraised = "DuplicateKeyError"
    /\ vseen = "other_user"
    /\ Cardinality(vfiles) = 1
    /\ \A d \in vfiles : d.timestamp < now

C8_DeleteFailureNotFatal ==
    ~(ppc = "dead" /\ <<"delete_failed", pcur>> \in logs_col)

\* C9 -- Failure containment: no failure while handling a submission escapes
\* the handler or ends the worker loop.
C9_FailureContainment ==
    /\ \A w \in Workers : wpc[w] # "dead"
    /\ \A m \in Msgs : outcome[m] # "crashed"
    /\ ppc # "dead"

\* C10 (as stated) -- every submission that passed the duplicate check in
\* handlers.process ends with exactly one record in forwards_col, a
\* duplicate with none.
C10_OneRecordPerAccepted ==
    \A m \in Msgs :
        /\ outcome[m] \in {"copy_failed", "insert_failed", "forwarded"}
              => forwards_col[m] = 1
        /\ outcome[m] = "duplicate" => forwards_col[m] = 0

\* C10 (amended) -- a submission has exactly one record in forwards_col when
\* its copy and the insert succeeded, and none otherwise (copy or insert
\* raised, duplicate, dropped, still in progress).
C10_OneRecordPerForwarded ==
    \A m \in Msgs :
        forwards_col[m] = IF outcome[m] = "forwarded" THEN 1 ELSE 0

C10_Witness ==
    \E i, j \in Msgs :
        /\ outcome[i] = "forwarded" /\ forwards_col[i] = 1
        /\ outcome[j] = "copy_failed" /\ forwards_col[j] = 0

\* ---------------------------------------------------------------- C11
\* C11 (as stated): once an attempt to process a submission has failed the
\* core never attempts it again on its own: every delivery of a source
\* message gets at most one send_file call, every queued message at most
\* one message.copy() call.
C11_NoRetry ==
    /\ \A d \in Deliveries : tsendCalls[d] <= 1
    /\ \A m \in Msgs : copyCalls[m] <= 1

\* C11 (amended): handlers.process never attempts a message twice, and
\* _process_message attempts a delivery again only after send_file raised
\* FloodWaitError: the send_file calls of a delivery exceed the
\* FloodWaitErrors it got by at most one, and after a failure of any other
\* kind the delivery ends as failed with no further call.
C11_RetryOnlyAfterFloodWait ==
    /\ \A m \in Msgs : copyCalls[m] <= 1
    /\ \A d \in Deliveries :
        /\ tsendCalls[d] <= tfloods[d] + 1
        /\ tpc[d] = "failed" => tsendCalls[d] = tfloods[d] + 1

\* a delivery was attempted again after a flood wait, and another failed
\* for good after a single attempt
C11_Witness ==
    /\ \E d \in Deliveries : tfloods[d] = 1 /\ tsendCalls[d] = 2
    /\ \E d \in Deliveries : tpc[d] = "failed" /\ tsendCalls[d] = 1

\* ---------------------------------------------------------------- C12
\* C12: once db.messages holds a record of a source message with status
\* success or failed, no later step changes or replaces it, and no second
\* record of the same source message appears (a re-delivery included).
C12_TerminalAbsorbing ==
    [][\A r \in tmessages :
          /\ r \in tmessages'
          /\ \A r2 \in tmessages' :
                r2.source_message_id = r.source_message_id => r2 = r]_vars

\* a re-delivery of an already recorded source message was sent and its
\* insert was refused by the unique index, the stored record being of the
\* other status
C12_Witness ==
    \E d \in Deliveries :
        /\ tsaved[d] = "DuplicateKeyError"
        /\ \E r \in tmessages :
              /\ r.source_message_id = tsrc[d]
              /\ r.forwarded_by # d
              /\ r.status # tstatus[d]

\* a step of the periodic sweep
SweepStep == lastSweep' # lastSweep

C15_InFlightNeverDeleted ==
    [][(jpc = "inflight" /\ jfile \in tfs)
        => (jfile \in tfs' \/ jpc' = "idle")]_vars

\* C15 (amended): the same for every in-flight file downloaded less than
\* older_than_hours (24 h) ago; the periodic sweep removes an older one,
\* the shutdown cleanup none.
C15_InFlightYoungNeverDeleted ==
    [][(/\ jpc = "inflight"
        /\ jfile \in tfs
        /\ jfile.mtime >= clock - older_than_hours)
        => (jfile \in tfs' \/ jpc' = "idle")]_vars

\* a sweep ran while a submission was in progress, removed a stale file and
\* left the file in use in place
C15_Witness ==
    /\ jpc = "inflight"
    /\ jfile \in tfs
    /\ lastSweep = clock
    /\ lastSweep > jfile.mtime
    /\ sweep_removed # {}

\* ---------------------------------------------------------------- C16
\* messages that were enqueued and not yet taken by the worker
WaitingFwd == {m \in Msgs : outcome[m] = "queued"}
WaitingProc == {m \in Msgs : poutcome[m] = "queued"}

\* C16: the dispatch queue is FIFO and has a single consumer.  A message
\* offered by the transport is always accepted and goes to the end of the
\* queue, however many messages wait and whatever the worker does; the
\* message the worker takes is the one enqueued earliest among those waiting
\* (message ids are given in enqueue order); and when it takes one, no other
\* message is being handled.
C16_FifoSingleDispatch ==
    /\ [](variant = "fwd" /\ nextMsg <= MaxMsgs
            => ENABLED on_channel_message("u1"))
    /\ [](variant = "proc" /\ nextMsg <= MaxMsgs => ENABLED enqueue("u1"))
    /\ [][ /\ nextMsg' # nextMsg /\ variant = "fwd"
                => q' = q \o <<nextMsg>>
           /\ nextMsg' # nextMsg /\ variant = "proc"
                => pq' = pq \o <<nextMsg>>
           /\ \A m \in Msgs :
                outcome[m] = "queued" /\ outcome'[m] = "handling"
                => /\ \A i \in WaitingFwd : m <= i
                   /\ \A i \in Msgs : outcome[i] # "handling"
           /\ \A m \in Msgs :
                poutcome[m] = "queued" /\ poutcome'[m] = "handling"
                => /\ \A i \in WaitingProc : m <= i
                   /\ \A i \in Msgs : poutcome[i] # "handling"
         ]_vars

\* two messages waited behind the first one; the first was handled to its
\* end, the second is being handled and the third still waits
C16_Witness ==
    /\ variant = "fwd"
    /\ HandledFwd(1)
    /\ outcome[2] = "handling"
    /\ q = <<3>>

Emitted == emitFlip' # emitFlip
Distance(a, b) == IF a < b THEN b - a ELSE a - b

C22_IdCheckBeforeDownload ==
    /\ [][pdownloaded' # pdownloaded =>
            /\ pdownloaded' = pdownloaded \cup {pcur}
            /\ use_hash
            /\ ~is_duplicate_by_unique_id(msgUid[pcur])]_vars
    /\ [](/\ ppc \in {"idcheck", "dupdelete"} => pcur \notin pdownloaded
          /\ \A m \in Msgs : poutcome[m] = "duplicate" => m \notin pdownloaded
          /\ phash # "None" /\ pcur # 0 => pcur \in pdownloaded)

\* the first message was downloaded and hashed; the second one, with the
\* same file_unique_id, was rejected by the id check without a download
C22_Witness ==
    /\ variant = "proc"
    /\ use_hash
    /\ msgUid[1] = msgUid[2]
    /\ 1 \in pdownloaded
    /\ poutcome[2] = "duplicate"
    /\ 2 \notin pdownloaded

\* ---------------------------------------------------------------- C23
\* C23: _process_video answers with the daily-limit message only to a user
\* who has made MAX_USER_REQUESTS_PER_DAY requests during the current day.
C23_DailyLimit ==
    qresult = "limit" =>
        \E u \in QuotaUsers : today_requests[u] >= MAX_USER_REQUESTS_PER_DAY

\* ---------------------------------------------------------------- C24
\* messages whose handling went past the pause check
PastPauseCheck(m) ==
    outcome[m] \notin {"none", "queued", "dropped_paused"}

\* C24: while the stored state is paused the worker copies no message to
\* the target and registers no key; a message dropped while paused stays
\* unforwarded and out of the queue; and a key is registered only for a
\* message that was not dropped.
C24_PauseSemantics ==
    /\ [][state_col = "paused" =>
            /\ copyCalls' = copyCalls
            /\ dup_col' = dup_col]_vars
    /\ [](\A m \in Msgs : outcome[m] = "dropped_paused" =>
            /\ copyCalls[m] = 0
            /\ \A i \in 1..Len(q) : q[i] # m)
    /\ [](\A u \in Uids : dup_col[u] > 0 =>
            \E m \in Msgs : msgUid[m] = u /\ PastPauseCheck(m))

\* C24 amended: a message for which get_forward_state answers paused is
\* dropped in that step: nothing is copied, no key registered, nothing put
\* on the queue; a dropped message stays unforwarded and out of the queue;
\* and a key is registered only for a message that was not dropped.
C24_PausedReadDrops ==
    /\ [][\A w \in Workers :
            /\ wpc[w] = "state_find"
            /\ state_col = "paused"
            /\ wpc'[w] \notin {"state_find", "dead"}
            => /\ outcome'[wcur[w]] = "dropped_paused"
               /\ wpc'[w] = "idle"
               /\ copyCalls' = copyCalls
               /\ dup_col' = dup_col
               /\ q' = q]_vars
    /\ [](\A m \in Msgs : outcome[m] = "dropped_paused" =>
            /\ copyCalls[m] = 0
            /\ \A i \in 1..Len(q) : q[i] # m)
    /\ [](\A u \in Uids : dup_col[u] > 0 =>
            \E m \in Msgs : msgUid[m] = u /\ PastPauseCheck(m))

\* the first message was dropped while paused; after the resume the same
\* media came again and was forwarded as new
C24_Witness ==
    /\ variant = "fwd"
    /\ outcome[1] = "dropped_paused"
    /\ state_col = "running"
    /\ msgUid[2] = msgUid[1]
    /\ outcome[2] = "forwarded"
    /\ copied[1] = 0

\* ---------------------------------------------------------------- C25
\* C25: when a pause or resume stored the state document between the
\* find_one and the insert_one of the worker's first get_forward_state, the
\* call does not raise (the worker goes on), and the stored state is never
\* replaced by the default.
C25_PauseFlagRace ==
    [][\A w \in Workers :
         wpc[w] = "state_insert" /\ state_col # "nodoc"
         => /\ wpc'[w] # "dead"
            /\ state_col' = state_col]_vars

\* ---------------------------------------------------------------- C26
\* C26: task_done is called once for each message the worker took: the
\* count of unfinished tasks is the number of messages that wait in the
\* queue plus the one in hand, and task_done has never raised (the worker
\* task has not ended).
C26_TaskDoneOnce ==
    variant = "proc" =>
        /\ ppc # "dead"
        /\ punfinished = Len(pq) + (IF pcur # 0 THEN 1 ELSE 0)

\* ---------------------------------------------------------------- C27
\* the handling of message m has ended: forwarded, skipped as a duplicate,
\* dropped while paused, or failed
EndedFwd(m) ==
    outcome[m] \in {"forwarded", "duplicate", "dropped_paused", "copy_failed",
                    "insert_failed"}
EndedProc(m) ==
    poutcome[m] \in {"processed", "duplicate", "duplicate_by_hash",
                     "send_failed", "exception"}

\* C27: with workers scheduled fairly, every message placed on the queue is
\* eventually taken and its handling ends; no worker stops for good while a
\* message waits.
C27_WorkerLiveness ==
    /\ \A m \in Msgs : outcome[m] = "queued" ~> EndedFwd(m)
    /\ \A m \in Msgs : poutcome[m] = "queued" ~> EndedProc(m)

\* ---------------------------------------------------------------- C28
\* _process_video answers, in this step, that the submission is a duplicate
ReportsDuplicate ==
    /\ vpc \in {"check", "save"}
    /\ vresult' \in {"duplicate", "duplicate_at_insert"}

\* C28: _process_video reports a submission as a duplicate only when the
\* ledger holds the record of an accepted submission with the same content.
C28_NoFalseDuplicates ==
    [][ReportsDuplicate =>
         \E d \in vfiles : d.content = vcur.content]_vars

\* ---------------------------------------------------------------- C29
\* _process_video returns in this step
JobReturns == jpc = "inflight" /\ jpc' = "idle"
Processed(f) == [f EXCEPT !.dir = "temp/processed"]

Recorded(d) ==
    \E r \in tmessages : /\ r.source_message_id = tsrc[d]
                          /\ r.status = "success"

\* C21: a handling that reaches the duplicate check when its source message
\* has been forwarded and recorded finds the record and is skipped, so that
\* it sends nothing to the destination channel.
C21_ForwardedAtMostOnce ==
    [][\A d \in Deliveries :
         tpc[d] = "check" /\ tpc'[d] # "check" /\ Recorded(d)
         => tpc'[d] = "skipped"]_vars

\* ---------------------------------------------------------------- C18
\* the pairs of a parameter string that carry the key
Given(params, key) == {i \in 1..Len(params) : params[i].key = key}
ValueOf(params, key) == params[CHOOSE i \in Given(params, key) : TRUE]
Max0(n) == IF n < 0 THEN 0 ELSE n
DefaultOf(key) == IF key = "w" THEN 150 ELSE IF key = "h" THEN 50 ELSE 0

\* the key is missing from the parameter string or its value does not parse
FallsBack(params, key) ==
    \/ Given(params, key) = {}
    \/ ValueOf(params, key).form = "junk"
    \/ key \in {"w", "h"} /\ ValueOf(params, key).form # "int"

\* the key is written as iw-<offset> (for x) or ih-<offset> (for y)
FromEdge(params, key) ==
    /\ key \in {"x", "y"}
    /\ Given(params, key) # {}
    /\ ValueOf(params, key).form = "edge"

\* C18: the rectangle the removal runs with is the resolution of the
\* parameter string against the frame: x written iw-<offset> is
\* max(0, frameWidth - offset - w), y written ih-<offset> is
\* max(0, frameHeight - offset - h), a missing or unparsable key has its
\* default (w=150, h=50, x=0, y=0), and the rectangle lies inside the frame.
C18_ParameterResolution ==
    wm_exit \in {"zero", "nonzero"} =>
        /\ FromEdge(wm_params, "x") =>
             wm_rect.x = Max0(wm_frame.w - ValueOf(wm_params, "x").n - wm_rect.w)
        /\ FromEdge(wm_params, "y") =>
             wm_rect.y = Max0(wm_frame.h - ValueOf(wm_params, "y").n - wm_rect.h)
        /\ \A key \in {"x", "y", "w", "h"} :
             FallsBack(wm_params, key) => wm_rect[key] = DefaultOf(key)
        /\ wm_rect.x >= 0 /\ wm_rect.x + wm_rect.w <= wm_frame.w
        /\ wm_rect.y >= 0 /\ wm_rect.y + wm_rect.h <= wm_frame.h

\* ---------------------------------------------------------------- C17
\* C17: when ffmpeg exits with a non-zero status remove_watermark reports
\* an error; it does not return a path as if the removal had been done.
C17_NonZeroExitIsError ==
    wm_exit = "nonzero" => wm_result = "Error"

====
